---- MODULE Spec2Model ----
(***************************************************************************)
(* Callback-to-future bridge of rust-indexed-db.                           *)
(*                                                                         *)
(*   Spec        IdbTransactionListeners: the three outcome callbacks      *)
(*               (oncomplete, onabort, onerror), the shared result cell,   *)
(*               the shared waker slot and do_poll.                        *)
(*   CursorSpec  IdbCursorFuture: do_poll / on_ready over the inner        *)
(*               request future, and the Rc-shared request handle.         *)
(***************************************************************************)
EXTENDS Integers, Sequences, FiniteSets, TLC

\* Bounds of the exploration.
MaxPolls == 3
MaxCalls == 3
MaxCursorPolls == 3

\* Wake handles a poll's Context can carry, error payloads an event can carry.
Wakers == {"w1", "w2"}
Payloads == {"e1", "e2"}
NoWaker == "none"
NoPayload == "-"

(***************************************************************************)
(* IdbTransactionResult and Option<IdbTransactionResult>                   *)
(***************************************************************************)
None == [kind |-> "None", payload |-> NoPayload]
Success == [kind |-> "Success", payload |-> NoPayload]
Abort == [kind |-> "Abort", payload |-> NoPayload]
Error(p) == [kind |-> "Error", payload |-> p]
Outcomes == {Success, Abort} \cup {Error(p) : p \in Payloads}

\* Poll<IdbTransactionResult>; NoPoll: do_poll has not returned yet.
NoPoll == [st |-> "NoPoll", val |-> None]
Pending == [st |-> "Pending", val |-> None]
Ready(v) == [st |-> "Ready", val |-> v]

\* The web_sys::Event handed to the error callback: whether evt.target() is
\* Some, and what req.error() gives: "None" for Ok(None), "Throws" for Err(_),
\* a payload for Ok(Some(payload)).
Events == [target : BOOLEAN, err : {"None", "Throws"} \cup Payloads]

\* States the external transaction can be in when the listeners are built.
TxStates == {"Active", "Complete", "Aborted", "Errored"}

VARIABLES
    txAtNew,        \* state of the external transaction when new() ran
    result,         \* ResultRef: the Option in the result cell
    resultBorrow,   \* RefCell borrow flag of the result cell: 0 unused, 1 reading
    waker,          \* WakerRef: the Option<Waker> in the waker slot
    pc,             \* position of do_poll: "idle", or "arming" (inside the else branch)
    pollCtx,        \* waker of the Context of the poll in progress
    panicked,       \* a callback panicked
    polls,          \* history: number of do_poll calls that returned
    pollRet,        \* history: what the last do_poll returned
    firstPollRet,   \* history: what the first do_poll returned
    lastPendingCtx, \* history: wake handle of the last poll that returned Pending
    calls,          \* history: number of callback invocations
    writes,         \* history: number of process() calls that returned true
    lastCb,         \* history: the last callback invocation
    firstUsable,    \* history: outcome carried by the first callback that carried one
    written,        \* history: value stored by the first successful write
    writeAt,        \* history: number of polls started before that write, -1 before it
    quirkSeen,      \* history: an unextractable error event fired on an empty cell
    woken,          \* history: how often each wake handle was invoked
    waking,         \* the wake handle whose wake() is running, NoWaker if none
    pendingCtxs,    \* history: wake handles of all polls that returned Pending
    dropped,        \* the listener set (and the future owning it) was dropped
    lateCalls,      \* history: events delivered to the slots after the drop
    futAlive,       \* IdbCursorFuture not yet dropped
    inner,          \* what the inner IdbRequestFuture's result cell holds
    strong,         \* strong count of the Rc<IdbRequestRef>
    freed,          \* the IdbRequestRef was dropped
    cursors,        \* number of yielded IdbCursor values still alive
    cpolls,         \* history: number of IdbCursorFuture polls
    cret,           \* history: what the last IdbCursorFuture poll returned
    cprev,          \* history: what the IdbCursorFuture poll before it returned
    cin             \* history: what the inner poll of that poll returned

txVars == <<txAtNew, result, resultBorrow, waker, pc, pollCtx, panicked, polls,
            pollRet, firstPollRet, lastPendingCtx, calls, writes, lastCb,
            firstUsable, written, writeAt, quirkSeen, woken, waking,
            pendingCtxs, dropped, lateCalls>>
curVars == <<futAlive, inner, strong, freed, cursors, cpolls, cret, cprev, cin>>
vars == <<txVars, curVars>>

NoCb == [slot |-> "none", carried |-> None, ret |-> "none", woke |-> NoWaker]

\* Number of do_poll calls started so far.
PollsStarted == polls + (IF pc = "arming" THEN 1 ELSE 0)

(***************************************************************************)
(* internal_utils                                                          *)
(***************************************************************************)
\* create_lazy_ref_cell(): a fresh shared cell holding no value.
create_lazy_ref_cell == None

\* wake(&waker): takes the stored handle out of the slot and invokes it;
\* nothing is invoked when the slot is empty.
wake(slot) == [invoked |-> slot, slot |-> NoWaker]

(***************************************************************************)
(* base_callback                                                           *)
(***************************************************************************)
\* RefCell::try_borrow_mut succeeds only while the cell is not borrowed.
try_borrow_mut(borrow) == borrow = 0

\* process(result, kind): whether the waker should be called, and the cell
\* afterwards.
base_process_overwrite(cell, borrow, kind) ==
    IF ~try_borrow_mut(borrow)
    THEN [wrote |-> FALSE, cell |-> cell]
    ELSE [wrote |-> TRUE, cell |-> kind]

base_process(cell, borrow, kind) ==
    IF ~try_borrow_mut(borrow)
    THEN [wrote |-> FALSE, cell |-> cell]
    ELSE IF cell = None
         THEN [wrote |-> TRUE, cell |-> kind]
         ELSE [wrote |-> FALSE, cell |-> cell]

(***************************************************************************)
(* error_callback                                                          *)
(***************************************************************************)
\* process(evt, result): as above, and whether the expect() panicked.
error_process_fabricate(evt, cell, borrow) ==
    IF ~evt.target
    THEN [panic |-> FALSE, wrote |-> FALSE, cell |-> cell]
    ELSE IF evt.err = "Throws"
    THEN [panic |-> TRUE, wrote |-> FALSE, cell |-> cell]
    ELSE IF ~try_borrow_mut(borrow)
    THEN [panic |-> FALSE, wrote |-> FALSE, cell |-> cell]
    ELSE IF cell = None
    THEN [panic |-> FALSE, wrote |-> TRUE,
          cell |-> Error(IF evt.err = "None" THEN NoPayload ELSE evt.err)]
    ELSE [panic |-> FALSE, wrote |-> FALSE, cell |-> cell]

error_process(evt, cell, borrow) ==
    IF ~evt.target
    THEN [panic |-> FALSE, wrote |-> FALSE, cell |-> cell]
    ELSE IF evt.err = "Throws"
    THEN [panic |-> TRUE, wrote |-> FALSE, cell |-> cell]
    ELSE IF evt.err = "None"
    THEN [panic |-> FALSE, wrote |-> FALSE, cell |-> cell]
    ELSE IF ~try_borrow_mut(borrow)
    THEN [panic |-> FALSE, wrote |-> FALSE, cell |-> cell]
    ELSE IF cell = None
    THEN [panic |-> FALSE, wrote |-> TRUE, cell |-> Error(evt.err)]
    ELSE [panic |-> FALSE, wrote |-> FALSE, cell |-> cell]

\* The outcome an error event carries, None when no payload can be extracted.
Carried(evt) ==
    IF evt.target /\ evt.err \in Payloads THEN Error(evt.err) ELSE None

Unextractable(evt) == ~evt.target \/ evt.err = "None"

(***************************************************************************)
(* IdbTransactionListeners::new                                            *)
(***************************************************************************)
\* new(inner) creates the two cells and registers the three closures; it does
\* not look at the state inner is in.
new(tx) ==
    /\ txAtNew = tx
    /\ waker = NoWaker
    /\ result = create_lazy_ref_cell
    /\ resultBorrow = 0
    /\ pc = "idle"
    /\ pollCtx = NoWaker
    /\ panicked = FALSE
    /\ polls = 0
    /\ pollRet = NoPoll
    /\ firstPollRet = NoPoll
    /\ lastPendingCtx = NoWaker
    /\ calls = 0
    /\ writes = 0
    /\ lastCb = NoCb
    /\ firstUsable = None
    /\ written = None
    /\ writeAt = -1
    /\ quirkSeen = FALSE
    /\ woken = [w \in Wakers |-> 0]
    /\ waking = NoWaker
    /\ pendingCtxs = {}
    /\ dropped = FALSE
    /\ lateCalls = 0

\* The external transaction dispatches an event only to handlers registered
\* when the event occurs: one that had already finished when new() ran
\* dispatches nothing to the three closures.
CanFire == txAtNew = "Active" /\ ~panicked /\ calls + lateCalls < MaxCalls

\* One run of a registered closure: process() gave (panic, wrote, cell) for
\* an invocation of `slot` carrying `carried`; the closure calls wake() when
\* doWake. The handle wake() invokes runs until wake_returns.
RunClosure(slot, carried, panic, wrote, cell, doWake) ==
    LET w == IF doWake THEN wake(waker)
                       ELSE [invoked |-> NoWaker, slot |-> waker]
    IN  /\ result' = cell
        /\ waker' = w.slot
        /\ panicked' = panic
        /\ woken' = IF w.invoked \in Wakers
                    THEN [woken EXCEPT ![w.invoked] = @ + 1]
                    ELSE woken
        /\ calls' = calls + 1
        /\ writes' = writes + (IF wrote THEN 1 ELSE 0)
        /\ lastCb' = [slot |-> slot, carried |-> carried,
                      ret |-> IF panic THEN "panic"
                              ELSE IF wrote THEN "true" ELSE "false",
                      woke |-> w.invoked]
        /\ firstUsable' = IF firstUsable = None THEN carried ELSE firstUsable
        /\ written' = IF wrote /\ written = None THEN cell ELSE written
        /\ writeAt' = IF wrote /\ writeAt = -1 THEN PollsStarted ELSE writeAt
        /\ quirkSeen' = (quirkSeen \/ (slot = "error" /\ carried = None
                                       /\ ~panic /\ result = None))
        /\ waking' = IF w.invoked \in Wakers THEN w.invoked ELSE waking
        /\ UNCHANGED <<txAtNew, resultBorrow, pc, pollCtx, polls, pollRet,
                       firstPollRet, lastPendingCtx, pendingCtxs, dropped,
                       lateCalls>>
        /\ UNCHANGED curVars

\* An event delivered to a slot whose Closure was dropped with the listener
\* set: the Rust closure no longer exists and nothing of it runs.
Detached ==
    /\ lateCalls' = lateCalls + 1
    /\ UNCHANGED <<txAtNew, result, resultBorrow, waker, pc, pollCtx, panicked,
                   polls, pollRet, firstPollRet, lastPendingCtx, calls, writes,
                   lastCb, firstUsable, written, writeAt, quirkSeen, woken,
                   waking, pendingCtxs, dropped>>
    /\ UNCHANGED curVars

\* The Closure values are fields of IdbTransactionListeners (lines 25-27):
\* they live exactly as long as the listener set.
Closure_leaked(slot, carried, panic, wrote, cell, doWake) ==
    RunClosure(slot, carried, panic, wrote, cell, doWake)

Closure(slot, carried, panic, wrote, cell, doWake) ==
    IF dropped
    THEN Detached
    ELSE RunClosure(slot, carried, panic, wrote, cell, doWake)

\* The closure base_callback builds: wake only if process() returned true.
base_callback_nowake(slot, kind) ==
    /\ CanFire
    /\ LET r == base_process(result, resultBorrow, kind)
       IN  Closure(slot, kind, FALSE, r.wrote, r.cell, FALSE)

base_callback_wakes_first(slot, kind) ==
    /\ CanFire
    /\ LET r == base_process(result, resultBorrow, kind)
       IN  Closure(slot, kind, FALSE, r.wrote, r.cell, TRUE)

base_callback(slot, kind) ==
    /\ CanFire
    /\ LET r == base_process(result, resultBorrow, kind)
       IN  Closure(slot, kind, FALSE, r.wrote, r.cell, r.wrote)

\* The closure error_callback builds.
error_callback_always_wakes(evt) ==
    /\ CanFire
    /\ LET r == error_process(evt, result, resultBorrow)
       IN  Closure("error", Carried(evt), r.panic, r.wrote, r.cell, ~r.panic)

error_callback(evt) ==
    /\ CanFire
    /\ LET r == error_process(evt, result, resultBorrow)
       IN  Closure("error", Carried(evt), r.panic, r.wrote, r.cell, r.wrote)

\* The three registered handlers.
on_success == base_callback("success", Success)
on_abort == base_callback("abort", Abort)
on_error == \E evt \in Events : error_callback(evt)

(***************************************************************************)
(* IdbTransactionListeners::do_poll                                        *)
(***************************************************************************)
\* What a returning poll records.
Returned(ret) ==
    /\ polls' = polls + 1
    /\ pollRet' = ret
    /\ firstPollRet' = IF polls = 0 THEN ret ELSE firstPollRet

\* Line 54-55: borrow the result cell; Ready(v.clone()) when it holds a value,
\* otherwise enter the else branch with the borrow still held.
do_poll_always_arms(w) ==
    /\ pc = "idle" /\ ~panicked /\ ~dropped /\ polls < MaxPolls
    /\ pc' = "arming"
    /\ pollCtx' = w
    /\ resultBorrow' = 1
    /\ UNCHANGED <<txAtNew, result, waker, panicked, polls, pollRet,
                   firstPollRet, lastPendingCtx, calls, writes, lastCb,
                   firstUsable, written, writeAt, quirkSeen, woken,
                   waking, pendingCtxs, dropped, lateCalls>>
    /\ UNCHANGED curVars

do_poll_arms_on_ready(w) ==
    /\ pc = "idle" /\ ~panicked /\ ~dropped /\ polls < MaxPolls
    /\ IF result # None
       THEN /\ Returned(Ready(result))
            /\ waker' = w
            /\ UNCHANGED <<pc, pollCtx, resultBorrow>>
       ELSE /\ pc' = "arming"
            /\ pollCtx' = w
            /\ resultBorrow' = 1
            /\ UNCHANGED <<polls, pollRet, firstPollRet, waker>>
    /\ UNCHANGED <<txAtNew, result, panicked, lastPendingCtx, calls,
                   writes, lastCb, firstUsable, written, writeAt, quirkSeen,
                   woken, waking, pendingCtxs, dropped, lateCalls>>
    /\ UNCHANGED curVars

do_poll_takes(w) ==
    /\ pc = "idle" /\ ~panicked /\ ~dropped /\ polls < MaxPolls
    /\ IF result # None
       THEN /\ Returned(Ready(result))
            /\ result' = None
            /\ UNCHANGED <<pc, pollCtx, resultBorrow>>
       ELSE /\ pc' = "arming"
            /\ pollCtx' = w
            /\ resultBorrow' = 1
            /\ UNCHANGED <<polls, pollRet, firstPollRet, result>>
    /\ UNCHANGED <<txAtNew, waker, panicked, lastPendingCtx, calls,
                   writes, lastCb, firstUsable, written, writeAt, quirkSeen,
                   woken, waking, pendingCtxs, dropped, lateCalls>>
    /\ UNCHANGED curVars

do_poll(w) ==
    /\ pc = "idle" /\ ~panicked /\ ~dropped /\ polls < MaxPolls
    /\ IF result # None
       THEN /\ Returned(Ready(result))
            /\ UNCHANGED <<pc, pollCtx, resultBorrow>>
       ELSE /\ pc' = "arming"
            /\ pollCtx' = w
            /\ resultBorrow' = 1
            /\ UNCHANGED <<polls, pollRet, firstPollRet>>
    /\ UNCHANGED <<txAtNew, result, waker, panicked, lastPendingCtx, calls,
                   writes, lastCb, firstUsable, written, writeAt, quirkSeen,
                   woken, waking, pendingCtxs, dropped, lateCalls>>
    /\ UNCHANGED curVars

\* Line 57-58: store the Context's waker, return Pending; the borrows taken
\* by this poll end with the statement.
do_poll_else_keeps_first ==
    /\ pc = "arming" /\ ~panicked
    /\ waker' = IF waker = NoWaker THEN pollCtx ELSE waker
    /\ Returned(Pending)
    /\ lastPendingCtx' = pollCtx
    /\ resultBorrow' = 0
    /\ pc' = "idle"
    /\ pollCtx' = NoWaker
    /\ pendingCtxs' = pendingCtxs \cup {pollCtx}
    /\ UNCHANGED <<txAtNew, result, panicked, calls, writes, lastCb,
                   firstUsable, written, writeAt, quirkSeen, woken, waking,
                   dropped, lateCalls>>
    /\ UNCHANGED curVars

do_poll_else ==
    /\ pc = "arming" /\ ~panicked
    /\ waker' = pollCtx
    /\ Returned(Pending)
    /\ lastPendingCtx' = pollCtx
    /\ resultBorrow' = 0
    /\ pc' = "idle"
    /\ pollCtx' = NoWaker
    /\ pendingCtxs' = pendingCtxs \cup {pollCtx}
    /\ UNCHANGED <<txAtNew, result, panicked, calls, writes, lastCb,
                   firstUsable, written, writeAt, quirkSeen, woken, waking,
                   dropped, lateCalls>>
    /\ UNCHANGED curVars

poll == \E w \in Wakers : do_poll(w)

\* The invoked wake handle returns to the closure that called wake().
wake_returns ==
    /\ waking # NoWaker /\ ~panicked
    /\ waking' = NoWaker
    /\ UNCHANGED <<txAtNew, result, resultBorrow, waker, pc, pollCtx, panicked,
                   polls, pollRet, firstPollRet, lastPendingCtx, calls, writes,
                   lastCb, firstUsable, written, writeAt, quirkSeen, woken,
                   pendingCtxs, dropped, lateCalls>>
    /\ UNCHANGED curVars

\* The future owning the listener set is dropped: waker, result and the
\* three Closure fields go with it. Nothing is called on the transaction.
drop_listeners ==
    /\ ~dropped /\ ~panicked /\ pc = "idle"
    /\ dropped' = TRUE
    /\ UNCHANGED <<txAtNew, result, resultBorrow, waker, pc, pollCtx, panicked,
                   polls, pollRet, firstPollRet, lastPendingCtx, calls, writes,
                   lastCb, firstUsable, written, writeAt, quirkSeen, woken,
                   waking, pendingCtxs, lateCalls>>
    /\ UNCHANGED curVars

(***************************************************************************)
(* IdbCursorFuture                                                         *)
(***************************************************************************)
\* Raw values a request can resolve to (Null is JsValue::NULL) and the
\* DomExceptions it can fail with.
Null == "null"
RawValues == {Null, "c1", "c2"}
DomExceptions == {"d1", "d2"}

\* Result<Option<JsValue>, DomException> of the inner future; Unset while
\* the request has not completed. The inner future is built with
\* read_response = true (line 30), so an Ok always carries the raw value.
Unset == [tag |-> "Unset", v |-> "-"]
OkRaw(raw) == [tag |-> "Ok", v |-> raw]
ErrRaw(d) == [tag |-> "Err", v |-> d]
InnerResults == {OkRaw(raw) : raw \in RawValues} \cup {ErrRaw(d) : d \in DomExceptions}

\* Result<Option<IdbCursor>, DomException>
OkNone == [tag |-> "OkNone", v |-> "-"]
OkSome(raw) == [tag |-> "OkSome", v |-> raw]
Err(d) == [tag |-> "Err", v |-> d]

CNoPoll == [st |-> "NoPoll", val |-> Unset]
CPending == [st |-> "Pending", val |-> Unset]
CReady(v) == [st |-> "Ready", val |-> v]

\* IdbRequestFuture::do_poll: Pending until the request has completed, then
\* Ready with a copy of its result.
inner_do_poll(cell) == IF cell = Unset THEN CPending ELSE CReady(cell)

\* safe_unwrap_option(Some(raw)) = raw
safe_unwrap_option(res) == res.v

\* on_ready(res): the mapped result, and the number of Rc::clone(&self.req)
\* it performed.
on_ready_no_clone(res) ==
    IF res.tag = "Err"
    THEN [ret |-> Err(res.v), clones |-> 0]
    ELSE LET raw == safe_unwrap_option(res)
         IN  IF raw = Null
             THEN [ret |-> OkNone, clones |-> 0]
             ELSE [ret |-> OkSome(raw), clones |-> 0]

on_ready_swapped(res) ==
    IF res.tag = "Err"
    THEN [ret |-> Err(res.v), clones |-> 0]
    ELSE LET raw == safe_unwrap_option(res)
         IN  IF raw # Null
             THEN [ret |-> OkNone, clones |-> 0]
             ELSE [ret |-> OkSome(raw), clones |-> 1]

on_ready_eager_clone(res) ==
    IF res.tag = "Err"
    THEN [ret |-> Err(res.v), clones |-> 1]
    ELSE LET raw == safe_unwrap_option(res)
         IN  IF raw = Null
             THEN [ret |-> OkNone, clones |-> 1]
             ELSE [ret |-> OkSome(raw), clones |-> 1]

on_ready(res) ==
    IF res.tag = "Err"
    THEN [ret |-> Err(res.v), clones |-> 0]
    ELSE LET raw == safe_unwrap_option(res)
         IN  IF raw = Null
             THEN [ret |-> OkNone, clones |-> 0]
             ELSE [ret |-> OkSome(raw), clones |-> 1]

\* IdbCursorFuture::new(Ok(req), source): the inner future holds the
\* IdbRequestRef and strong_request() gives the future a second share.
cursor_new ==
    /\ futAlive = TRUE
    /\ inner = Unset
    /\ strong = 2
    /\ freed = FALSE
    /\ cursors = 0
    /\ cpolls = 0
    /\ cret = CNoPoll
    /\ cprev = CNoPoll
    /\ cin = CNoPoll

\* IdbCursorFuture::do_poll: self.inner.do_poll(ctx).map(|res| self.on_ready(res))
cursor_do_poll ==
    /\ futAlive /\ cpolls < MaxCursorPolls
    /\ LET p == inner_do_poll(inner)
           r == on_ready(p.val)
       IN  /\ cin' = p
           /\ cprev' = cret
           /\ cpolls' = cpolls + 1
           /\ IF p.st = "Pending"
              THEN /\ cret' = CPending
                   /\ UNCHANGED <<strong, cursors>>
              ELSE /\ cret' = CReady(r.ret)
                   /\ strong' = strong + r.clones
                   /\ cursors' = cursors + (IF r.ret.tag = "OkSome" THEN 1 ELSE 0)
    /\ UNCHANGED <<futAlive, inner, freed>>
    /\ UNCHANGED txVars

\* The request completes: the inner future's callback stores its result.
request_completes ==
    /\ inner = Unset /\ ~freed
    /\ \E res \in InnerResults : inner' = res
    /\ UNCHANGED <<futAlive, strong, freed, cursors, cpolls, cret, cprev, cin>>
    /\ UNCHANGED txVars

\* Rc<IdbRequestRef>: dropping n shares; the value is dropped with the last.
DropShares(n) ==
    /\ strong' = strong - n
    /\ freed' = (freed \/ strong - n <= 0)

\* The future is dropped: its fields inner and req give up their shares.
drop_future ==
    /\ futAlive
    /\ futAlive' = FALSE
    /\ DropShares(2)
    /\ UNCHANGED <<inner, cursors, cpolls, cret, cprev, cin>>
    /\ UNCHANGED txVars

\* A yielded IdbCursor is dropped.
drop_cursor ==
    /\ cursors > 0
    /\ cursors' = cursors - 1
    /\ DropShares(1)
    /\ UNCHANGED <<futAlive, inner, cpolls, cret, cprev, cin>>
    /\ UNCHANGED txVars

(***************************************************************************)
(* Specifications                                                          *)
(***************************************************************************)
Init == (\E tx \in TxStates : new(tx)) /\ cursor_new

Next ==
    \/ on_success
    \/ on_abort
    \/ on_error
    \/ poll
    \/ do_poll_else
    \/ wake_returns
    \/ drop_listeners

Spec == Init /\ [][Next]_vars

CursorInit == new("Active") /\ cursor_new

CursorNext ==
    \/ cursor_do_poll
    \/ request_completes
    \/ drop_future
    \/ drop_cursor

CursorSpec == CursorInit /\ [][CursorNext]_vars

(***************************************************************************)
(* Properties                                                              *)
(***************************************************************************)
RECURSIVE SumOver(_, _)
SumOver(f, S) ==
    IF S = {} THEN 0
    ELSE LET x == CHOOSE y \in S : TRUE IN f[x] + SumOver(f, S \ {x})

\* Total number of wake-handle invocations so far.
WakeCount == SumOver(woken, Wakers)

\* A callback ran in this step / a do_poll returned in this step.
CallbackStep == calls' = calls + 1
PollReturns == polls' = polls + 1

\* C1 (write-once): once a callback has stored an outcome in the result cell,
\* no later callback invocation and no poll changes the cell, and every
\* do_poll that returns afterwards returns Ready with exactly that outcome.
C1_WriteOnce ==
    [][/\ written' # None => result' = written'
       /\ written # None =>
            /\ result' = written
            /\ PollReturns => pollRet' = Ready(written)]_vars

\* A callback carrying a different outcome fired after the write and was
\* refused, and the second poll after it still returned the written outcome.
C1_Witness ==
    /\ written # None
    /\ lastCb.ret = "false" /\ lastCb.carried \notin {None, written}
    /\ polls >= 2 /\ pollRet = Ready(written)

\* C2 (first writer wins), as claimed: at most one callback invocation
\* performs the write, and once the cell is populated exactly one did and the
\* stored outcome, which is what a Ready poll returns, is the outcome carried
\* by the first callback that fired with a usable outcome.
C2_FirstWriterWins ==
    /\ writes <= 1
    /\ result # None => (writes = 1 /\ result = firstUsable)
    /\ pollRet.st = "Ready" => pollRet.val = firstUsable

\* C3 (no lost wakeup): a callback that writes the result cell before any
\* do_poll was started invokes no wake handle, and the very first do_poll
\* then returns Ready with the written outcome.
C3_NoLostWakeup ==
    /\ [][(writes' = writes + 1 /\ PollsStarted = 0) =>
            (lastCb'.woke = NoWaker /\ woken' = woken)]_vars
    /\ []((writeAt = 0 /\ polls >= 1) => firstPollRet = Ready(written))

C3_Witness ==
    /\ writeAt = 0 /\ polls = 1 /\ pollRet = Ready(written)
    /\ WakeCount = 0

\* C4 (wake-then-resolve): when a do_poll returned Pending and stored its
\* wake handle, the callback that then writes the result cell invokes
\* exactly that handle, it is invoked exactly once and no other handle is,
\* and a poll that returns after the write returns Ready with the outcome.
C4_WakeThenResolve ==
    /\ [][(writes' = writes + 1 /\ lastPendingCtx # NoWaker) =>
            /\ lastCb'.woke = lastPendingCtx
            /\ woken' = [woken EXCEPT ![lastPendingCtx] = @ + 1]]_vars
    /\ []((written # None /\ lastPendingCtx # NoWaker) =>
            woken = [w \in Wakers |-> IF w = lastPendingCtx THEN 1 ELSE 0])
    /\ [][(PollReturns /\ written # None) => pollRet' = Ready(written)]_vars

C4_Witness ==
    /\ firstPollRet = Pending
    /\ lastPendingCtx \in Wakers /\ woken[lastPendingCtx] = 1
    /\ written # None /\ pollRet = Ready(written)

\* C5 (idempotent late callbacks): a callback invoked while the result cell
\* is populated leaves the cell unchanged and invokes no wake handle, and at
\* most one wake-handle invocation happens over a whole run.
C5_IdempotentLate ==
    /\ [][(CallbackStep /\ result # None) =>
            /\ result' = result
            /\ lastCb'.woke = NoWaker
            /\ woken' = woken]_vars
    /\ [](WakeCount <= 1)

\* The winning slot fired again after resolution, one handle was invoked.
C5_Witness ==
    /\ result # None /\ calls >= 2
    /\ lastCb.ret = "false" /\ lastCb.carried = result
    /\ WakeCount = 1

\* The outcome a transaction that has finished stands for.
Settled(tx, v) ==
    \/ tx = "Complete" /\ v = Success
    \/ tx = "Aborted" /\ v = Abort
    \/ tx = "Errored" /\ v.kind = "Error"

\* C6 (already-settled external object), as claimed: when the transaction
\* had already completed, aborted or failed when the listeners were built,
\* the first poll returns Ready with that terminal outcome.
C6_AlreadySettled ==
    (txAtNew # "Active" /\ polls >= 1) =>
        (firstPollRet.st = "Ready" /\ Settled(txAtNew, firstPollRet.val))

\* C7 (unextractable error event): an error event without a target, or whose
\* source has no error payload, leaves the result cell and the waker slot as
\* they were, invokes no wake handle and reports "did not write"; a poll that
\* returns while the cell is still empty returns Pending.
C7_UnextractableNoop ==
    [][/\ (CallbackStep /\ lastCb'.slot = "error" /\ lastCb'.carried = None
             /\ lastCb'.ret # "panic") =>
            /\ lastCb'.ret = "false"
            /\ result' = result
            /\ waker' = waker
            /\ woken' = woken
       /\ (PollReturns /\ quirkSeen /\ result = None) => pollRet' = Pending]_vars

\* Such an event fired on the empty cell, a poll returned Pending, and a
\* later callback resolved the future to the outcome it carried.
C7_Witness ==
    /\ quirkSeen /\ pollRet = Pending
    /\ lastCb.ret = "true" /\ result = lastCb.carried

\* C8 (cursor result mapping): a poll of the cursor future is Pending while
\* the request has not completed; a null raw value gives Ok(None); any other
\* raw value gives Ok(Some(cursor)) and the cursor takes one more share of
\* the request handle; an error is passed on unchanged.
C8_CursorMapping ==
    [][cpolls' = cpolls + 1 =>
        /\ inner = Unset => (cret' = CPending /\ strong' = strong)
        /\ inner = OkRaw(Null) => (cret' = CReady(OkNone) /\ strong' = strong)
        /\ \A raw \in RawValues \ {Null} :
             inner = OkRaw(raw) =>
                /\ cret' = CReady(OkSome(raw))
                /\ strong' = strong + 1
                /\ cursors' = cursors + 1
        /\ \A d \in DomExceptions :
             inner = ErrRaw(d) => (cret' = CReady(Err(d)) /\ strong' = strong)]_vars

\* Polled Pending, then a null completion, then polled: the absent result.
C8_Witness ==
    /\ cprev = CPending /\ inner = OkRaw(Null) /\ cret = CReady(OkNone)

\* C9 (handle lifetime): the request handle is alive exactly as long as the
\* future or a yielded cursor is alive: it is not released while one of them
\* lives, and it is released once the future and all cursors are dropped.
C9_HandleLifetime ==
    /\ freed <=> (~futAlive /\ cursors = 0)
    /\ strong = (IF futAlive THEN 2 ELSE 0) + cursors

\* The future yielded a cursor; both were dropped and the handle released.
C9_Witness ==
    /\ cret.st = "Ready" /\ cret.val.tag = "OkSome"
    /\ ~futAlive /\ cursors = 0 /\ freed

\* C10 (poll decision): a do_poll that returns returns Pending exactly when
\* the result cell is empty and Ready with the stored outcome exactly when
\* it is populated; on Pending the waker slot holds the poll's handle
\* afterwards, on Ready the slot is left as it was.
C10_PollDecision ==
    [][PollReturns =>
        IF result = None
        THEN pollRet' = Pending /\ pollCtx \in Wakers /\ waker' = pollCtx
        ELSE pollRet' = Ready(result) /\ waker' = waker]_vars

\* A poll displaced the handle of an earlier one, and a later poll was Ready.
C10_Witness ==
    /\ firstPollRet = Pending /\ polls >= 3
    /\ pollRet.st = "Ready" /\ pollRet.val = result
    /\ lastPendingCtx \in Wakers /\ woken[lastPendingCtx] = 1

\* C11 (write before wake): a wake handle is invoked only by a callback
\* whose own process() returned true and stored the outcome it carried; as
\* long as an invoked handle is running the result cell is populated and not
\* borrowed, and a do_poll that returns from inside it returns Ready.
C11_WriteBeforeWake ==
    /\ [][woken' # woken =>
            /\ CallbackStep
            /\ lastCb'.ret = "true"
            /\ result' = lastCb'.carried /\ result' # None
            /\ resultBorrow' = 0]_vars
    /\ [](waking # NoWaker => (result # None /\ resultBorrow = 0))
    /\ [][(PollReturns /\ waking # NoWaker) => pollRet' = Ready(result)]_vars

\* A poll ran while the invoked handle had not returned yet, and was Ready.
C11_Witness ==
    /\ waking \in Wakers /\ woken[waking] = 1
    /\ pollRet.st = "Ready" /\ pollRet.val = result

\* C12 (latest waker only): the waker slot holds nothing or the handle of
\* the most recent poll that returned Pending, and holds that handle as long
\* as the cell is empty; only the handle of the last Pending poll is ever
\* invoked, the handles of earlier Pending polls never are.
C12_LatestWakerOnly ==
    /\ waker \in {NoWaker, lastPendingCtx}
    /\ (result = None /\ lastPendingCtx # NoWaker) => waker = lastPendingCtx
    /\ \A w \in Wakers : woken[w] > 0 => w = lastPendingCtx
    /\ \A w \in pendingCtxs \ {lastPendingCtx} : woken[w] = 0

\* Polled Pending with both handles; the resolving callback invoked one.
C12_Witness ==
    /\ pendingCtxs = Wakers /\ written # None
    /\ woken[lastPendingCtx] = 1 /\ WakeCount = 1

\* C13 (reentrant write rejection), as claimed: a callback that fires while
\* the result cell is borrowed reports "did not write", leaves the cell
\* unchanged, invokes no wake handle and does not panic.
C13_ReentrantRejection ==
    [][(CallbackStep /\ resultBorrow # 0) =>
        /\ lastCb'.ret = "false"
        /\ result' = result
        /\ woken' = woken
        /\ ~panicked']_vars

\* C14 (no panic in the error callback), as claimed: whatever event the
\* error callback is given, it ends with process() returning true or false
\* and never panics.
C14_NoPanic ==
    /\ ~panicked
    /\ lastCb.slot = "error" => lastCb.ret \in {"true", "false"}

\* C15 (cancellation): once the listener set has been dropped, no event the
\* transaction delivers to the three slots writes the result cell, touches
\* the waker slot or invokes a wake handle. (No step of the listener set
\* acts on the transaction at all, so nothing is sent to cancel it.)
C15_Cancellation ==
    [][dropped => (result' = result /\ waker' = waker /\ woken' = woken
                   /\ writes' = writes)]_vars

\* Dropped while Pending with a stored handle; a later event was ignored.
C15_Witness ==
    /\ dropped /\ lateCalls >= 1
    /\ pollRet = Pending /\ result = None /\ waker \in Wakers
    /\ WakeCount = 0

\* C16 (eventual resolution), as claimed: once a callback has fired with a
\* usable outcome, also one that fired while a poll was in progress, the
\* result cell is populated as soon as no poll is in progress, so that every
\* poll made afterwards returns Ready.
C16_EventualResolution ==
    (firstUsable # None /\ pc = "idle") => result # None

\* C17 (separation of writers): no step of do_poll changes the result cell;
\* a callback never puts a handle into the waker slot; the cell leaves the
\* empty state only in a callback step, taking the outcome that callback
\* carried; a Ready poll returns that outcome and happens after a callback.
C17_SeparationOfWriters ==
    /\ [][(PollReturns \/ pc' # pc) => result' = result]_vars
    /\ [][CallbackStep => waker' \in {waker, NoWaker}]_vars
    /\ [][(result = None /\ result' # None) =>
            (CallbackStep /\ result' = lastCb'.carried)]_vars
    /\ [](pollRet.st = "Ready" =>
            (calls >= 1 /\ written # None /\ pollRet.val = written))

\* Pending first, then a callback wrote, then a poll returned its outcome.
C17_Witness ==
    /\ firstPollRet = Pending /\ calls >= 1
    /\ pollRet.st = "Ready" /\ pollRet.val = lastCb.carried
    /\ lastCb.ret = "true"

\* C18 (cursor future adds no state): a poll of the cursor future returns
\* Pending exactly when the inner poll did; the strong count of the request
\* handle grows by one in a poll that returns Ok(Some(cursor)), stays as it
\* was in a poll that returns Pending, Err or Ok(None), and never grows in
\* any other step.
C18_CursorAddsNoState ==
    [][/\ cpolls' = cpolls + 1 =>
            /\ (cret'.st = "Pending") <=> (cin'.st = "Pending")
            /\ strong' = strong + (IF cret'.st = "Ready" /\ cret'.val.tag = "OkSome"
                                   THEN 1 ELSE 0)
       /\ cpolls' = cpolls => strong' <= strong]_vars

\* Polled Pending without a new share, then Ok(Some): exactly one more.
C18_Witness ==
    /\ cprev = CPending
    /\ cret.st = "Ready" /\ cret.val.tag = "OkSome"
    /\ futAlive /\ strong = 3 /\ cursors = 1

====
